---- MODULE Spec2Model ----
(***************************************************************************)
(* The HTML subset parser of src/src/html.rs and the node model of         *)
(* src/src/dom.rs.                                                         *)
(*                                                                         *)
(* A string is a sequence of characters; every character has a UTF-8 width *)
(* and the cursor `pos` is a BYTE offset, as in the Rust code.  A panic    *)
(* (failed assert!, unwrap on None, slice off a character boundary) is a   *)
(* result record with ok = FALSE; its pos is the cursor at the panic.      *)
(* The recursion parse_nodes -> parse_node -> parse_element -> parse_nodes *)
(* is run on an explicit stack of frames, one action per step.             *)
(***************************************************************************)
EXTENDS Integers, Sequences, FiniteSets, TLC

VARIABLES input, pos, stack, nodes, result, pc

vars == <<input, pos, stack, nodes, result, pc>>

---------------------------------------------------------------------------
(* Characters *)

LT == "<"
GT == ">"
SLASH == "/"
EQ == "="
DQ == "\""
SQ == "'"
SP == " "
\* a two-byte character (U+00E9)
EAcute == "é"

Chars == {LT, GT, SLASH, EQ, DQ, SQ, SP, "a", "b", EAcute}

\* char::len_utf8 for the characters of Chars
len_utf8(c) == IF c = EAcute THEN 2 ELSE 1

\* char::is_whitespace for the characters of Chars
is_whitespace == {SP}

\* 'a'..='z' | 'A'..='Z' | '0'..='9' for the characters of Chars
is_tag_name_char == {"a", "b"}

\* |c| c != '<'
is_text_char == Chars \ {LT}

\* |c| c != open_quote: the value ends at any quote character
attr_value_test_any_quote(open_quote) == Chars \ {DQ, SQ}

\* |c| c != open_quote
attr_value_test(open_quote) == Chars \ {open_quote}

---------------------------------------------------------------------------
(* Strings and slices *)

\* String::len: the length in bytes
RECURSIVE byte_len(_)
byte_len(s) == IF s = <<>> THEN 0 ELSE len_utf8(Head(s)) + byte_len(Tail(s))

\* str::is_char_boundary
RECURSIVE is_char_boundary(_, _)
is_char_boundary(s, p) ==
    IF p = 0 THEN TRUE
    ELSE IF s = <<>> THEN FALSE
    ELSE IF p < len_utf8(Head(s)) THEN FALSE
    ELSE is_char_boundary(Tail(s), p - len_utf8(Head(s)))

\* &s[p..] for p on a character boundary
RECURSIVE slice_from(_, _)
slice_from(s, p) ==
    IF p = 0 THEN s ELSE slice_from(Tail(s), p - len_utf8(Head(s)))

Ok(p, v) == [ok |-> TRUE, pos |-> p, val |-> v]

\* a panic with the cursor at p
Panic(p) == [ok |-> FALSE, pos |-> p, val |-> <<>>]

---------------------------------------------------------------------------
(* dom.rs *)

\* HashMap::new()
HashMap_new == <<>>

\* HashMap::insert that keeps the value already stored under the name
attr_insert_keep_first(attributes, name, value) ==
    [n \in DOMAIN attributes \cup {name} |->
        IF n \in DOMAIN attributes THEN attributes[n] ELSE value]

\* HashMap::insert
attr_insert(attributes, name, value) ==
    [n \in DOMAIN attributes \cup {name} |->
        IF n = name THEN value ELSE attributes[n]]

text(data) ==
    [children |-> <<>>, node_type |-> [kind |-> "Text", data |-> data]]

elem(name, attrs, children) ==
    [children |-> children,
     node_type |-> [kind |-> "Element", tag_name |-> name, attributes |-> attrs]]

\* no node yet
NoNode == [children |-> <<>>, node_type |-> [kind |-> "None"]]

---------------------------------------------------------------------------
(* html.rs: the cursor primitives *)

next_char(s, p) ==
    IF ~is_char_boundary(s, p) THEN Panic(p)
    ELSE LET rest == slice_from(s, p)
         IN  IF rest = <<>> THEN Panic(p) ELSE Ok(p, rest[1])

starts_with(s, p, prefix) ==
    IF ~is_char_boundary(s, p) THEN Panic(p)
    ELSE LET rest == slice_from(s, p)
         IN  Ok(p, /\ Len(rest) >= Len(prefix)
                   /\ SubSeq(rest, 1, Len(prefix)) = prefix)

eof(s, p) == p >= byte_len(s)

consume_char(s, p) ==
    IF ~is_char_boundary(s, p) THEN Panic(p)
    ELSE LET rest == slice_from(s, p)
         IN  IF rest = <<>> THEN Panic(p)
             ELSE LET next_pos == IF Len(rest) >= 2 THEN len_utf8(rest[1]) ELSE 1
                  IN  Ok(p + next_pos, rest[1])

\* assert!(self.consume_char() == c)
assert_consume_char(s, p, c) ==
    LET r == consume_char(s, p)
    IN  IF r.ok /\ r.val = c THEN Ok(r.pos, c) ELSE Panic(r.pos)

\* the loop of consume_while, res the characters consumed so far
RECURSIVE consume_while_loop(_, _, _, _)
consume_while_loop(s, p, test, res) ==
    IF eof(s, p) THEN Ok(p, res)
    ELSE LET nc == next_char(s, p)
         IN  IF ~nc.ok THEN Panic(p)
             ELSE IF nc.val \notin test THEN Ok(p, res)
             ELSE LET cc == consume_char(s, p)
                  IN  consume_while_loop(s, cc.pos, test, Append(res, cc.val))

consume_while(s, p, test) == consume_while_loop(s, p, test, <<>>)

\* a whitespace skip that consumes one character at most
consume_whitespace_once(s, p) ==
    IF eof(s, p) THEN Ok(p, <<>>)
    ELSE LET nc == next_char(s, p)
         IN  IF ~nc.ok THEN Panic(p)
             ELSE IF nc.val \notin is_whitespace THEN Ok(p, <<>>)
             ELSE consume_char(s, p)

consume_whitespace(s, p) == consume_while(s, p, is_whitespace)

parse_tag_name(s, p) == consume_while(s, p, is_tag_name_char)

\* a text run that also stops at whitespace
parse_text_stop_at_whitespace(s, p) ==
    LET r == consume_while(s, p, is_text_char \ is_whitespace)
    IN  [ok |-> r.ok, pos |-> r.pos, val |-> text(r.val)]

\* a text run that consumes nothing
parse_text_consume_nothing(s, p) == Ok(p, text(<<>>))

parse_text(s, p) ==
    LET r == consume_while(s, p, is_text_char)
    IN  [ok |-> r.ok, pos |-> r.pos, val |-> text(r.val)]

parse_attr_value(s, p) ==
    LET open_quote == consume_char(s, p)
    IN  IF ~open_quote.ok THEN Panic(open_quote.pos)
        ELSE IF open_quote.val \notin {DQ, SQ} THEN Panic(open_quote.pos)
        ELSE LET value == consume_while(s, open_quote.pos,
                                        attr_value_test(open_quote.val))
             IN  IF ~value.ok THEN Panic(value.pos)
                 ELSE LET close == assert_consume_char(s, value.pos, open_quote.val)
                      IN  IF ~close.ok THEN Panic(close.pos)
                          ELSE Ok(close.pos, value.val)

parse_attr(s, p) ==
    LET name == parse_tag_name(s, p)
    IN  IF ~name.ok THEN Panic(name.pos)
        ELSE LET eq == assert_consume_char(s, name.pos, EQ)
             IN  IF ~eq.ok THEN Panic(eq.pos)
                 ELSE LET value == parse_attr_value(s, eq.pos)
                      IN  IF ~value.ok THEN Panic(value.pos)
                          ELSE Ok(value.pos, <<name.val, value.val>>)

\* parse_node that takes every node for a text run
parse_node_always_text(s, p) == "text"

\* match self.next_char() { '<' => parse_element, _ => parse_text }
parse_node(s, p) ==
    LET nc == next_char(s, p)
    IN  IF ~nc.ok THEN "panic"
        ELSE IF nc.val = LT THEN "element" ELSE "text"

\* the opening of parse_element: '<' and the tag name
open_tag(s, p) ==
    LET lt == assert_consume_char(s, p, LT)
    IN  IF ~lt.ok THEN Panic(lt.pos) ELSE parse_tag_name(s, lt.pos)

\* a closing tag whose name is not compared with the opening one
close_tag_any_name(s, p, tag_name) ==
    LET lt == assert_consume_char(s, p, LT)
    IN  IF ~lt.ok THEN Panic(lt.pos)
        ELSE LET sl == assert_consume_char(s, lt.pos, SLASH)
             IN  IF ~sl.ok THEN Panic(sl.pos)
                 ELSE LET name == parse_tag_name(s, sl.pos)
                      IN  IF ~name.ok THEN Panic(name.pos)
                          ELSE assert_consume_char(s, name.pos, GT)

\* the closing of parse_element: '<', '/', the same tag name, '>'
close_tag(s, p, tag_name) ==
    LET lt == assert_consume_char(s, p, LT)
    IN  IF ~lt.ok THEN Panic(lt.pos)
        ELSE LET sl == assert_consume_char(s, lt.pos, SLASH)
             IN  IF ~sl.ok THEN Panic(sl.pos)
                 ELSE LET name == parse_tag_name(s, sl.pos)
                      IN  IF ~name.ok THEN Panic(name.pos)
                          ELSE IF name.val # tag_name THEN Panic(name.pos)
                          ELSE assert_consume_char(s, name.pos, GT)

\* the root is always wrapped
root_always_wrapped(ns) == elem(<<"h", "t", "m", "l">>, HashMap_new, ns)

\* the value parse returns for the top-level nodes ns
root(ns) ==
    IF Len(ns) = 1 THEN ns[1] ELSE elem(<<"h", "t", "m", "l">>, HashMap_new, ns)

---------------------------------------------------------------------------
(* The inputs *)

MaxLen == 3
MaxTokens == 4
MaxAttrItems == 3

SeqsUpTo(S, n) == UNION {[1..k -> S] : k \in 0..n}

RECURSIVE Flatten(_)
Flatten(ss) == IF ss = <<>> THEN <<>> ELSE Head(ss) \o Flatten(Tail(ss))

\* every string of at most MaxLen characters
CharInputs == SeqsUpTo(Chars, MaxLen)

\* tags without attributes, text and whitespace
Tokens ==
    { <<LT, "a", GT>>, <<LT, "b", GT>>, <<LT, SLASH, "a", GT>>,
      <<LT, SLASH, "b", GT>>, <<"a">>, <<SP>>, <<EAcute>> }

TokenInputs == {Flatten(ts) : ts \in SeqsUpTo(Tokens, MaxTokens)}

\* what stands between "<a" and ">" in an opening tag: whitespace, or an
\* attribute name, `=` and a quoted value, with ws spaces around the `=`
AttrItems ==
    { [kind |-> "ws"],
      [kind |-> "attr", name |-> <<"a">>, open |-> DQ, value |-> <<"a">>, close |-> DQ, ws |-> 0],
      [kind |-> "attr", name |-> <<"a">>, open |-> SQ, value |-> <<"b">>, close |-> SQ, ws |-> 0],
      [kind |-> "attr", name |-> <<"b">>, open |-> DQ, value |-> <<"a", SQ, "b">>, close |-> DQ, ws |-> 0],
      [kind |-> "attr", name |-> <<"b">>, open |-> DQ, value |-> <<"a">>, close |-> SQ, ws |-> 0],
      [kind |-> "attr", name |-> <<"a">>, open |-> DQ, value |-> <<"a">>, close |-> DQ, ws |-> 1] }

RenderItem(it) ==
    IF it.kind = "ws" THEN <<SP>>
    ELSE it.name \o [i \in 1..it.ws |-> SP] \o <<EQ>> \o [i \in 1..it.ws |-> SP]
         \o <<it.open>> \o it.value \o <<it.close>>

\* <a ITEMS>b</a>
TagDoc(items) ==
    <<LT, "a">> \o Flatten([i \in 1..Len(items) |-> RenderItem(items[i])])
    \o <<GT, "b", LT, SLASH, "a", GT>>

AttrItemSeqs == SeqsUpTo(AttrItems, MaxAttrItems)

AttrInputs == {TagDoc(items) : items \in AttrItemSeqs}

Inputs == CharInputs \cup TokenInputs \cup AttrInputs

---------------------------------------------------------------------------
(* The parser as a state machine *)

NodesFrame ==
    [fn |-> "parse_nodes", pc |-> "loop", nodes |-> <<>>,
     tag_name |-> <<>>, attributes |-> HashMap_new]

ElementFrame(tag_name) ==
    [fn |-> "parse_element", pc |-> "attrs", nodes |-> <<>>,
     tag_name |-> tag_name, attributes |-> HashMap_new]

Top == stack[Len(stack)]

SetTop(frame) == [stack EXCEPT ![Len(stack)] = frame]

Pop(n) == SubSeq(stack, 1, Len(stack) - n)

\* a panic unwinds the whole parse
Abort(p) ==
    /\ pc' = "aborted"
    /\ pos' = p
    /\ stack' = <<>>
    /\ UNCHANGED <<input, nodes, result>>

\* parse has not been called yet
Init ==
    /\ input = <<>>
    /\ pos = 0
    /\ stack = <<>>
    /\ nodes = <<>>
    /\ result = NoNode
    /\ pc = "start"

\* parse(source): Parser { pos: 0, input: source }.parse_nodes()
ParseStart ==
    /\ pc = "start"
    /\ \E source \in Inputs :
          /\ input' = source
          /\ pos' = 0
          /\ stack' = <<NodesFrame>>
          /\ pc' = "parse_nodes"
    /\ UNCHANGED <<nodes, result>>

\* parse_nodes: the head of the loop
ParseNodesLoop ==
    /\ pc = "parse_nodes"
    /\ Top.fn = "parse_nodes"
    /\ Top.pc = "loop"
    /\ LET ws == consume_whitespace(input, pos)
       IN  IF ~ws.ok THEN Abort(ws.pos)
           ELSE IF eof(input, ws.pos)
           THEN /\ pos' = ws.pos
                /\ stack' = SetTop([Top EXCEPT !.pc = "break"])
                /\ UNCHANGED <<input, nodes, result, pc>>
           ELSE LET sw == starts_with(input, ws.pos, <<LT, SLASH>>)
                IN  IF ~sw.ok THEN Abort(sw.pos)
                    ELSE /\ pos' = ws.pos
                         /\ stack' = SetTop([Top EXCEPT !.pc =
                                        IF sw.val THEN "break" ELSE "node"])
                         /\ UNCHANGED <<input, nodes, result, pc>>

\* parse_nodes: nodes.push(self.parse_node()), the node a text run
ParseText ==
    /\ pc = "parse_nodes"
    /\ Top.fn = "parse_nodes"
    /\ Top.pc = "node"
    /\ parse_node(input, pos) # "element"
    /\ IF parse_node(input, pos) = "panic" THEN Abort(pos)
       ELSE LET r == parse_text(input, pos)
            IN  IF ~r.ok THEN Abort(r.pos)
                ELSE /\ pos' = r.pos
                     /\ stack' = SetTop([Top EXCEPT !.pc = "loop",
                                            !.nodes = Append(@, r.val)])
                     /\ UNCHANGED <<input, nodes, result, pc>>

\* parse_element: '<' and the tag name
ParseElementOpen ==
    /\ pc = "parse_nodes"
    /\ Top.fn = "parse_nodes"
    /\ Top.pc = "node"
    /\ parse_node(input, pos) = "element"
    /\ LET r == open_tag(input, pos)
       IN  IF ~r.ok THEN Abort(r.pos)
           ELSE /\ pos' = r.pos
                /\ stack' = Append(stack, ElementFrame(r.val))
                /\ UNCHANGED <<input, nodes, result, pc>>

\* parse_attributes: one turn of the loop
ParseAttributesLoop ==
    /\ pc = "parse_nodes"
    /\ Top.fn = "parse_element"
    /\ Top.pc = "attrs"
    /\ LET ws == consume_whitespace(input, pos)
       IN  IF ~ws.ok THEN Abort(ws.pos)
           ELSE LET nc == next_char(input, ws.pos)
                IN  IF ~nc.ok THEN Abort(nc.pos)
                    ELSE IF nc.val = GT
                    THEN /\ pos' = ws.pos
                         /\ stack' = SetTop([Top EXCEPT !.pc = "gt"])
                         /\ UNCHANGED <<input, nodes, result, pc>>
                    ELSE LET a == parse_attr(input, ws.pos)
                         IN  IF ~a.ok THEN Abort(a.pos)
                             ELSE /\ pos' = a.pos
                                  /\ stack' = SetTop([Top EXCEPT !.attributes =
                                         attr_insert(@, a.val[1], a.val[2])])
                                  /\ UNCHANGED <<input, nodes, result, pc>>

\* parse_element: '>' and the call of parse_nodes for the children
ParseElementChildren ==
    /\ pc = "parse_nodes"
    /\ Top.fn = "parse_element"
    /\ Top.pc = "gt"
    /\ LET gt == assert_consume_char(input, pos, GT)
       IN  IF ~gt.ok THEN Abort(gt.pos)
           ELSE /\ pos' = gt.pos
                /\ stack' = Append(SetTop([Top EXCEPT !.pc = "children"]),
                                   NodesFrame)
                /\ UNCHANGED <<input, nodes, result, pc>>

\* parse_element: the children are parsed; the closing tag, and the element
\* is pushed on the nodes of the parse_nodes that called parse_node
ParseElementClose ==
    /\ pc = "parse_nodes"
    /\ Len(stack) >= 3
    /\ Top.fn = "parse_nodes"
    /\ Top.pc = "break"
    /\ LET children == Top.nodes
           element == stack[Len(stack) - 1]
           caller == stack[Len(stack) - 2]
           r == close_tag(input, pos, element.tag_name)
       IN  IF ~r.ok THEN Abort(r.pos)
           ELSE /\ pos' = r.pos
                /\ stack' = Append(Pop(3),
                      [caller EXCEPT !.pc = "loop",
                          !.nodes = Append(@, elem(element.tag_name,
                                                   element.attributes, children))])
                /\ UNCHANGED <<input, nodes, result, pc>>

\* the top-level parse_nodes returns to parse
ParseNodesReturn ==
    /\ pc = "parse_nodes"
    /\ Len(stack) = 1
    /\ Top.fn = "parse_nodes"
    /\ Top.pc = "break"
    /\ nodes' = Top.nodes
    /\ stack' = <<>>
    /\ pc' = "root"
    /\ UNCHANGED <<input, pos, result>>

\* parse: the one node, or the nodes under an html element
ParseRoot ==
    /\ pc = "root"
    /\ result' = root(nodes)
    /\ nodes' = <<>>
    /\ pc' = "returned"
    /\ UNCHANGED <<input, pos, stack>>

Next ==
    \/ ParseStart
    \/ ParseNodesLoop
    \/ ParseText
    \/ ParseElementOpen
    \/ ParseAttributesLoop
    \/ ParseElementChildren
    \/ ParseElementClose
    \/ ParseNodesReturn
    \/ ParseRoot

Spec == Init /\ [][Next]_vars

---------------------------------------------------------------------------
(* What the properties speak of *)

Final == pc \in {"returned", "aborted"}

Html == <<"h", "t", "m", "l">>

\* the frame on top of the stack, when there is one
AtFrame(fn, at) ==
    /\ pc = "parse_nodes"
    /\ stack # <<>>
    /\ Top.fn = fn
    /\ Top.pc = at

RECURSIVE HasEmptyText(_)
HasEmptyText(node) ==
    \/ node.node_type.kind = "Text" /\ node.node_type.data = <<>>
    \/ \E i \in 1..Len(node.children) : HasEmptyText(node.children[i])

NoLt(s) == \A i \in 1..Len(s) : s[i] # LT

AllWhitespace(s) == \A i \in 1..Len(s) : s[i] \in is_whitespace

RECURSIVE StripLeadingWhitespace(_)
StripLeadingWhitespace(s) ==
    IF s # <<>> /\ Head(s) \in is_whitespace
    THEN StripLeadingWhitespace(Tail(s)) ELSE s

\* a document of tags without attributes closes an open element with
\* another name, read up to the first closing tag that has no open element
RECURSIVE ClosesWrongTag(_, _)
ClosesWrongTag(s, open) ==
    IF s = <<>> THEN FALSE
    ELSE IF Head(s) # LT THEN ClosesWrongTag(Tail(s), open)
    ELSE IF s[2] = SLASH
    THEN IF open = <<>> THEN FALSE
         ELSE IF s[3] # open[Len(open)] THEN TRUE
         ELSE ClosesWrongTag(SubSeq(s, 5, Len(s)), SubSeq(open, 1, Len(open) - 1))
    ELSE ClosesWrongTag(SubSeq(s, 4, Len(s)), Append(open, s[2]))

\* the opening tags of AttrInputs, each with the items it was written from
AttrDocs == {<<TagDoc(items), items>> : items \in AttrItemSeqs}

ItemsOf(s) == {d[2] : d \in {q \in AttrDocs : q[1] = s}}

AttrsOf(items) == SelectSeq(items, LAMBDA it : it.kind = "attr")

\* whitespace separates the tag name from the first attribute
Separated(items) == AttrsOf(items) # <<>> => items[1].kind = "ws"

NoEqWhitespace(items) ==
    \A i \in 1..Len(items) : items[i].kind = "attr" => items[i].ws = 0

WellQuoted(items) ==
    \A i \in 1..Len(items) : items[i].kind = "attr" => items[i].open = items[i].close

DistinctNames(items) ==
    LET as == AttrsOf(items)
    IN  \A i, j \in 1..Len(as) : as[i].name = as[j].name => i = j

\* the tree of <a ITEMS>b</a> when no attribute name comes twice
ExpectedDoc(items) ==
    LET as == AttrsOf(items)
        names == {as[i].name : i \in 1..Len(as)}
    IN  elem(<<"a">>,
             [n \in names |-> as[CHOOSE i \in 1..Len(as) : as[i].name = n].value],
             <<text(<<"b">>)>>)

---------------------------------------------------------------------------
(* The properties *)

C2_EntireInputParsed == pc = "returned" => eof(input, pos)

C4_OtherQuoteIsFatal ==
    \A items \in ItemsOf(input) :
        (/\ Separated(items) /\ NoEqWhitespace(items)
         /\ \E i \in 1..Len(items) :
               /\ items[i].kind = "attr"
               /\ \E k \in 1..Len(items[i].value) :
                     items[i].value[k] \in {DQ, SQ} \ {items[i].open})
        => pc # "returned"

\* C4 as amended: both quote characters open a value; the value is every
\* character up to the next occurrence of the opening quote character, the
\* other quote character included.  In the documents of AttrInputs a value
\* closed by the other quote character runs on to the next opening quote
\* character or to the end of the input, and the parse aborts.
C4_ValueEndsAtOpeningQuote ==
    Final =>
        \A items \in ItemsOf(input) :
            (Separated(items) /\ NoEqWhitespace(items))
            => IF WellQuoted(items)
               THEN /\ pc = "returned"
                    /\ LET as == AttrsOf(items)
                           m == result.node_type.attributes
                       IN  \A n \in DOMAIN m :
                              \E i \in 1..Len(as) :
                                 as[i].name = n /\ as[i].value = m[n]
               ELSE pc = "aborted"

C4_Witness ==
    /\ pc = "returned"
    /\ \E items \in ItemsOf(input) :
          /\ Separated(items) /\ NoEqWhitespace(items) /\ WellQuoted(items)
          /\ result.node_type.attributes = [n \in {<<"b">>} |-> <<"a", SQ, "b">>]

\* C5: an input of tags without attributes in which a closing tag names
\* another element than the open one makes parse abort: no tree is returned.
C5_TagMismatchIsFatal ==
    (Final /\ input \in TokenInputs /\ ClosesWrongTag(input, <<>>))
    => (pc = "aborted" /\ result = NoNode)

C5_Witness ==
    /\ pc = "aborted"
    /\ input = <<LT, "a", GT, LT, "b", GT, LT, SLASH, "b", GT, LT, SLASH, "b", GT>>
    /\ pos = 13

\* C6: the cursor is always on a character boundary of the input or at its
\* end, and a text run ending in a multi-byte character does not abort.
C6_CursorOnCharBoundary ==
    /\ is_char_boundary(input, pos)
    /\ (Final /\ NoLt(input)) => pc = "returned"

\* C7: the attribute map of an element has one entry for each name in its
\* opening tag, and the value of a name is that of its last occurrence.
C7_LastWins ==
    pc = "returned" =>
        \A items \in ItemsOf(input) :
            (Separated(items) /\ NoEqWhitespace(items) /\ WellQuoted(items))
            => LET as == AttrsOf(items)
                   m == result.node_type.attributes
               IN  /\ DOMAIN m = {as[i].name : i \in 1..Len(as)}
                   /\ \A i \in 1..Len(as) :
                         (\A j \in (i + 1)..Len(as) : as[j].name # as[i].name)
                         => m[as[i].name] = as[i].value

C7_Witness ==
    /\ pc = "returned"
    /\ \E items \in ItemsOf(input) :
          /\ Separated(items) /\ NoEqWhitespace(items) /\ WellQuoted(items)
          /\ ~DistinctNames(items)
          /\ result.node_type.attributes = [n \in {<<"a">>} |-> <<"b">>]

StepsLeft ==
    CASE pc = "start" -> 5
      [] pc = "root" -> 2
      [] pc = "returned" -> 1
      [] pc = "aborted" -> 0
      [] OTHER -> IF Top.pc \in {"loop", "attrs"} THEN 4 ELSE 3

Rank == 5 * (byte_len(input) - pos) + StepsLeft

\* C9: parse ends, returning or aborting: every step after the call lowers
\* Rank, which is never negative, and a step is possible until parse has
\* returned or aborted.  The cursor never decreases; a turn of the loop of
\* parse_attributes that goes on to the next turn, and the node parsed in a
\* turn of the loop of parse_nodes, move the cursor forward.
C9_Termination ==
    /\ [](Rank >= 0)
    /\ [][pc # "start" => Rank' < Rank]_vars
    /\ [](\/ Final
          \/ pc \in {"start", "root"}
          \/ AtFrame("parse_nodes", "loop")
          \/ AtFrame("parse_nodes", "node")
          \/ AtFrame("parse_element", "attrs")
          \/ AtFrame("parse_element", "gt")
          \/ AtFrame("parse_nodes", "break") /\ Len(stack) # 2)
    /\ [][pos' >= pos]_vars
    /\ [][(AtFrame("parse_element", "attrs") /\ AtFrame("parse_element", "attrs")')
            => pos' > pos]_vars
    /\ [][(AtFrame("parse_nodes", "node") /\ pc' # "aborted") => pos' > pos]_vars

C9_Witness ==
    /\ pc = "returned"
    /\ result.node_type.kind = "Element"
    /\ Cardinality(DOMAIN result.node_type.attributes) = 2
    /\ Len(result.children) = 1

\* C10 as stated: between two adjacent tags the text run yields a text node
\* with empty data, so that the tree of <a><b></b></a> holds one.
C10_EmptyTextBetweenTags ==
    (pc = "returned"
        /\ input = <<LT, "a", GT, LT, "b", GT, LT, SLASH, "b", GT, LT, SLASH, "a", GT>>)
    => HasEmptyText(result)

\* C10 as amended: no text node with empty data is ever produced, a text
\* run being parsed only at a character other than `<`; adjacent tags have
\* no node between them.
C10_NoEmptyText ==
    /\ ~HasEmptyText(result)
    /\ \A i \in 1..Len(nodes) : ~HasEmptyText(nodes[i])
    /\ \A f \in 1..Len(stack) :
          \A i \in 1..Len(stack[f].nodes) : ~HasEmptyText(stack[f].nodes[i])
    /\ (pc = "returned" /\ input = <<LT, "a", GT, LT, SLASH, "a", GT>>)
          => result = elem(<<"a">>, HashMap_new, <<>>)

C10_Witness ==
    /\ pc = "returned"
    /\ input = <<LT, "a", GT, LT, "b", GT, LT, SLASH, "b", GT, LT, SLASH, "a", GT>>
    /\ result = elem(<<"a">>, HashMap_new, <<elem(<<"b">>, HashMap_new, <<>>)>>)

====
